---- MODULE Spec2Model ----
(***************************************************************************)
(* A state-machine model of the arxiv-ai-explorer frontend and of its      *)
(* database bootstrap script.  The module holds five machines over one     *)
(* set of variables, each with its own specification:                      *)
(*   SpecApi   the apiHelpers wrappers of services/api.ts                  *)
(*   SpecDb    docker/postgres/init-multiple-databases.sh                  *)
(*   SpecAuth  AuthProvider (contexts/AuthContext.tsx) and ProtectedRoute  *)
(*   SpecCM    the ContextManagement component                             *)
(*   SpecWs    the ResearchWorkspace page and PaperDetail's focus handlers *)
(* A machine leaves the variables of the other machines unchanged.         *)
(***************************************************************************)
EXTENDS Integers, Sequences, FiniteSets, TLC

VARIABLES
    \* ---- apiHelpers (services/api.ts)
    apiFn,          \* the helper last called ("none" before any call)
    apiHttp,        \* the outcome of its HTTP call
    apiRet,         \* what the helper's promise settled to
    \* ---- init-multiple-databases.sh
    dbEnv,          \* POSTGRES_MULTIPLE_{DATABASES,USERS,PASSWORDS}
    dbPc,           \* position of the script
    dbArr,          \* the arrays databases, users, passwords
    dbI,            \* loop index (1-based here, 0-based in bash)
    dbOut,          \* lines echoed so far
    dbExit,         \* exit status, Running while the script runs
    dbUsers,        \* roles created in the cluster, in order
    dbDbs,          \* databases created, in order, with their owner
    dbFailedAt,     \* the SQL step that failed, or NoFail
    \* ---- AuthProvider (contexts/AuthContext.tsx), ProtectedRoute (App.tsx)
    user,           \* useState user (Null or a user)
    token,          \* useState token (Null or a token)
    authIsLoading,  \* useState isLoading of AuthProvider
    lsAuthToken,    \* localStorage auth_token (Null when absent)
    loadAuthPc,     \* loadAuth: "mount" (effect not run yet), "await", "done"
    loadAuthTok,    \* storedToken of loadAuth
    authInFlight,   \* login / register calls awaiting authService
    logoutReqs,     \* tokens of the /auth/logout requests in flight
    routeView,      \* what ProtectedRoute rendered last
    authOnlyView,   \* what AuthOnly rendered last
    authLast,       \* history: the step of AuthProvider taken last, the state before it
    meRequests,     \* history: /auth/me requests sent by loadAuth
    authRaced,      \* history: login, register or logout acted while loadAuth awaited
    \* ---- ContextManagement (components/ContextManagement)
    cmChatId,       \* the chatId prop
    cmSessionInfo,  \* useState sessionInfo (NoSessionInfo for null)
    selectedStrategy, \* useState selectedStrategy
    loading,        \* useState loading
    error,          \* useState error
    cmTasks,        \* the component's requests in flight
    beSession,      \* backend: per chat "no_session" or the session's strategy
    cmLast,         \* history: the step taken last, the state before it
    \* ---- ResearchWorkspace (pages/ResearchWorkspace.tsx), PaperDetail
    page,           \* the route mounted: "paper" or "research"
    chatId,         \* useState chatId ('' until a chat is selected)
    isInitialized,  \* useState isInitialized
    messages,       \* useState messages
    currentMessage, \* useState currentMessage
    isLoading,      \* useState isLoading
    focusedPapers,  \* useState focusedPapers (arxiv ids)
    chats,          \* useState chats (ids)
    ssCurrentChatId,\* sessionStorage current_chat_id (Null when absent)
    ssFocused,      \* sessionStorage focused_papers_<id>, for the ids stored
    isFocused,      \* PaperDetail: useState isFocused
    isFocusLoading, \* PaperDetail: useState isFocusLoading
    beChats,        \* backend: the chats, as GET /chats lists them
    beFocused,      \* backend: the focused papers of each session
    beMsgs,         \* backend: the exchanges stored for each chat
    beSources,      \* backend: the papers its replies cite, which the sidebar lists
    wsTasks,        \* async calls in flight, each with what its closure captured
    sendCount,      \* messages sent so far
    cleanSwitch,    \* history: a chat was switched to with nothing in flight, and only
                    \* the requests of the switch have completed since, each with success
    \* ---- the shared axios client (services/api.ts, lines 4-21)
    clientReq       \* the request sent last through the client: its headers, and
                    \* history: auth_token and the step of AuthProvider before it

apiVars  == <<apiFn, apiHttp, apiRet>>
dbVars   == <<dbEnv, dbPc, dbArr, dbI, dbOut, dbExit, dbUsers, dbDbs, dbFailedAt>>
authVars == <<user, token, authIsLoading, lsAuthToken, loadAuthPc, loadAuthTok,
              authInFlight, logoutReqs, routeView, authOnlyView, authLast,
              meRequests, authRaced>>
cmVars   == <<cmChatId, cmSessionInfo, selectedStrategy, loading, error, cmTasks,
              beSession, cmLast>>
wsVars   == <<page, chatId, isInitialized, messages, currentMessage, isLoading,
              focusedPapers, chats, ssCurrentChatId, ssFocused,
              isFocused, isFocusLoading, beChats, beFocused, beMsgs,
              beSources, wsTasks, sendCount, cleanSwitch>>
clientVars == <<clientReq>>
vars     == <<apiVars, dbVars, authVars, cmVars, wsVars, clientVars>>

\* What a machine leaves alone: the variables of the others.
notApi  == <<dbVars, authVars, cmVars, wsVars, clientVars>>
notDb   == <<apiVars, authVars, cmVars, wsVars, clientVars>>
notAuth == <<apiVars, dbVars, cmVars, wsVars, clientVars>>
notCM   == <<apiVars, dbVars, authVars, wsVars, clientVars>>
notWs   == <<apiVars, dbVars, authVars, cmVars, clientVars>>
notClient == <<apiVars, dbVars, authVars, cmVars, wsVars>>

\* JavaScript's null / undefined, kept a string so that it compares with ids.
Null == "null"
Undefined == "undefined"

-----------------------------------------------------------------------------
(***************************************************************************)
(* apiHelpers: every helper awaits one endpoint inside try and returns a   *)
(* plain object from try or from catch.                                    *)
(***************************************************************************)

\* The helpers whose catch returns {success: false, error: detail || fallback}.
Fallback ==
    [ queryAssistant        |-> "Failed to query assistant",
      getSessionInfo        |-> "Failed to get session info",
      clearSession          |-> "Failed to clear session",
      switchContextStrategy |-> "Failed to switch strategy",
      getStrategies         |-> "Failed to get strategies",
      enhancedSearch        |-> "Failed to perform search",
      listChats             |-> "Failed to list chats",
      createChat            |-> "Failed to create chat",
      renameChat            |-> "Failed to rename chat",
      deleteChat            |-> "Failed to delete chat",
      getMessages           |-> "Failed to load messages",
      sendMessage           |-> "Failed to send message",
      listBookmarks         |-> "Failed to load bookmarks",
      addBookmark           |-> "Failed to add bookmark",
      removeBookmark        |-> "Failed to remove bookmark",
      listHistory           |-> "Failed to load history",
      clearHistory          |-> "Failed to clear history",
      getCitationNetwork    |-> "Failed to load citation network" ]

StdHelpers == DOMAIN Fallback

\* Helpers whose try block reads a field of res.data (res.data.items, ...):
\* a null body makes that read throw a TypeError inside try.
ReadsDataField == {"listChats", "createChat", "getMessages", "sendMessage"}

\* An HTTP outcome.  ok: a 2xx response with a body; otherwise axios rejects
\* with an error whose response?.data?.detail is `detail` (Undefined when the
\* error has no response, or the response no detail).
HttpBodies == {"object", "empty", "null"}
HttpStatuses == {"healthy", "degraded"}
HttpDetails == {Undefined, "", "Not found"}
HttpOutcomes ==
    [ok : {TRUE}, body : HttpBodies, status : HttpStatuses, detail : {Undefined}]
    \cup [ok : {FALSE}, body : {"null"}, status : {"degraded"}, detail : HttpDetails]

\* JavaScript's a || b on strings: b when a is undefined or empty.
OrElse(a, b) == IF a = Undefined \/ a = "" THEN b ELSE a

\* A settled promise of a helper.
Returned(v) == [settled |-> "returned", val |-> v]
Thrown(e)   == [settled |-> "rejected", val |-> e]

ResultObj(success, data, err) ==
    [success |-> success, data |-> data, error |-> err]

\* The try block of a standard helper: the awaited endpoint rejects, or reading
\* a field of a null body throws; otherwise the success object is built.
StdTry(h, http) ==
    IF ~http.ok THEN Thrown(http.detail)
    ELSE IF h \in ReadsDataField /\ http.body = "null" THEN Thrown(Undefined)
    ELSE Returned(ResultObj(TRUE, http.body, Undefined))

\* A helper with its catch dropped: the rejection escapes to the caller.
StdHelperNoCatch(h, http) == StdTry(h, http)

StdHelper(h, http) ==
    LET t == StdTry(h, http) IN
    IF t.settled = "rejected"
    THEN Returned(ResultObj(FALSE, Undefined, OrElse(t.val, Fallback[h])))
    ELSE t

\* checkHealth: response.data.status === 'healthy', false from catch.
checkHealth(http) ==
    IF ~http.ok \/ http.body = "null" THEN Returned(FALSE)
    ELSE Returned(http.body = "object" /\ http.status = "healthy")

\* getSystemStatus: {status: response.data.status, ...}, status 'error' from catch.
getSystemStatus(http) ==
    IF ~http.ok \/ http.body = "null"
    THEN Returned([status |-> "error", services |-> "{}", version |-> "unknown"])
    ELSE Returned([status   |-> IF http.body = "object" THEN http.status ELSE Undefined,
                   services |-> Undefined, version |-> Undefined])

InitApi ==
    /\ apiFn = "none"
    /\ apiHttp = [ok |-> TRUE, body |-> "empty", status |-> "degraded", detail |-> Undefined]
    /\ apiRet = Returned(FALSE)

CallCheckHealth ==
    \E http \in HttpOutcomes :
        /\ apiFn' = "checkHealth"
        /\ apiHttp' = http
        /\ apiRet' = checkHealth(http)
        /\ UNCHANGED notApi

CallGetSystemStatus ==
    \E http \in HttpOutcomes :
        /\ apiFn' = "getSystemStatus"
        /\ apiHttp' = http
        /\ apiRet' = getSystemStatus(http)
        /\ UNCHANGED notApi

CallStdHelper ==
    \E h \in StdHelpers, http \in HttpOutcomes :
        /\ apiFn' = h
        /\ apiHttp' = http
        /\ apiRet' = StdHelper(h, http)
        /\ UNCHANGED notApi

NextApi == CallCheckHealth \/ CallGetSystemStatus \/ CallStdHelper

-----------------------------------------------------------------------------
(***************************************************************************)
(* init-multiple-databases.sh                                              *)
(***************************************************************************)

MaxEnvLen == 3

Running == -1
NoFail == <<0, "none">>
MismatchMsg == "Error: Number of databases, users, and passwords must match"
SuccessMsg == "Multiple databases and users created successfully"

\* All strings over the alphabet of length <= n, as sequences of characters.
RECURSIVE StringsUpTo(_, _)
StringsUpTo(alphabet, n) ==
    IF n = 0 THEN {<<>>}
    ELSE LET shorter == StringsUpTo(alphabet, n - 1) IN
         shorter \cup {Append(s, c) : s \in shorter, c \in alphabet}

\* Splitting at every comma: "a,,b" has three fields, "" has one (empty).
RECURSIVE SplitComma(_)
SplitComma(s) ==
    IF \A k \in 1..Len(s) : s[k] # ","
    THEN <<s>>
    ELSE LET k == CHOOSE j \in 1..Len(s) :
                      s[j] = "," /\ \A m \in 1..(j - 1) : s[m] # ","
         IN <<SubSeq(s, 1, k - 1)>> \o SplitComma(SubSeq(s, k + 1, Len(s)))

\* IFS=',' read -r -a arr <<< "$s": the fields between commas, where one
\* trailing delimiter closes the last field instead of opening an empty one
\* (so "" gives no element and "a," gives one).
ReadArray(s) ==
    LET f == SplitComma(s) IN
    IF f[Len(f)] = <<>> THEN SubSeq(f, 1, Len(f) - 1) ELSE f

\* The test with && in place of ||.
MismatchAnd(arr) ==
    /\ Len(arr.databases) # Len(arr.users)
    /\ Len(arr.databases) # Len(arr.passwords)

\* The test of line 8.
Mismatch(arr) ==
    \/ Len(arr.databases) # Len(arr.users)
    \/ Len(arr.databases) # Len(arr.passwords)

InitDb ==
    /\ dbEnv \in [databases : StringsUpTo({"d", ","}, MaxEnvLen),
                  users     : StringsUpTo({"u", ","}, MaxEnvLen),
                  passwords : StringsUpTo({"p", ","}, MaxEnvLen)]
    /\ dbPc = "read"
    /\ dbArr = [databases |-> <<>>, users |-> <<>>, passwords |-> <<>>]
    /\ dbI = 0
    /\ dbOut = <<>>
    /\ dbExit = Running
    /\ dbUsers = <<>>
    /\ dbDbs = <<>>
    /\ dbFailedAt = NoFail

\* Lines 4-6.
DbRead ==
    /\ UNCHANGED notDb
    /\ dbPc = "read"
    /\ dbArr' = [databases |-> ReadArray(dbEnv.databases),
                 users     |-> ReadArray(dbEnv.users),
                 passwords |-> ReadArray(dbEnv.passwords)]
    /\ dbPc' = "check"
    /\ UNCHANGED <<dbEnv, dbI, dbOut, dbExit, dbUsers, dbDbs, dbFailedAt>>

\* Lines 8-11, then the loop head of line 13.
DbCheck ==
    /\ UNCHANGED notDb
    /\ dbPc = "check"
    /\ IF Mismatch(dbArr)
       THEN /\ dbOut' = Append(dbOut, MismatchMsg)
            /\ dbExit' = 1
            /\ dbPc' = "exit"
            /\ dbI' = dbI
       ELSE /\ dbI' = 1
            /\ dbPc' = "loop"
            /\ UNCHANGED <<dbOut, dbExit>>
    /\ UNCHANGED <<dbEnv, dbArr, dbUsers, dbDbs, dbFailedAt>>

\* Line 13 with lines 14-18: the next index, or line 31 after the last one.
DbLoop ==
    /\ UNCHANGED notDb
    /\ dbPc = "loop"
    /\ IF dbI <= Len(dbArr.databases)
       THEN /\ dbOut' = Append(dbOut, "Creating database")
            /\ dbPc' = "createUser"
            /\ dbExit' = dbExit
       ELSE /\ dbOut' = Append(dbOut, SuccessMsg)
            /\ dbPc' = "exit"
            /\ dbExit' = 0
    /\ UNCHANGED <<dbEnv, dbArr, dbI, dbUsers, dbDbs, dbFailedAt>>

\* psql -v ON_ERROR_STOP=1 under set -e: a failing statement ends psql with
\* status 3 and the script with it; what earlier statements did stays done.
DbSqlFails(step) ==
    /\ dbFailedAt' = <<dbI, step>>
    /\ dbExit' = 3
    /\ dbPc' = "exit"
    /\ UNCHANGED <<dbEnv, dbArr, dbI, dbOut, dbUsers, dbDbs>>

SeqRange(s) == {s[k] : k \in 1..Len(s)}

\* "${arr[$i]}": the element, or the empty string past the end of the array.
Elem(arr, i) == IF i \in 1..Len(arr) THEN arr[i] ELSE <<>>

\* Line 21.  CREATE USER fails when the role exists; any statement may fail
\* for a reason of the server's.
DbCreateUser ==
    /\ UNCHANGED notDb
    /\ dbPc = "createUser"
    /\ \/ DbSqlFails("createUser")
       \/ /\ Elem(dbArr.users, dbI) \notin SeqRange(dbUsers)
          /\ dbUsers' = Append(dbUsers, Elem(dbArr.users, dbI))
          /\ dbPc' = "createDb"
          /\ UNCHANGED <<dbEnv, dbArr, dbI, dbOut, dbExit, dbDbs, dbFailedAt>>

\* Line 22.
DbCreateDatabase ==
    /\ UNCHANGED notDb
    /\ dbPc = "createDb"
    /\ \/ DbSqlFails("createDb")
       \/ /\ Elem(dbArr.databases, dbI) \notin {d.name : d \in SeqRange(dbDbs)}
          /\ dbDbs' = Append(dbDbs, [name |-> Elem(dbArr.databases, dbI), owner |-> Elem(dbArr.users, dbI)])
          /\ dbPc' = "grant"
          /\ UNCHANGED <<dbEnv, dbArr, dbI, dbOut, dbExit, dbUsers, dbFailedAt>>

\* Line 23, and the second psql of lines 26-28.
DbGrant ==
    /\ UNCHANGED notDb
    /\ dbPc \in {"grant", "grantSchema"}
    /\ \/ DbSqlFails(dbPc)
       \/ /\ dbPc' = IF dbPc = "grant" THEN "grantSchema" ELSE "loop"
          /\ dbI' = IF dbPc = "grant" THEN dbI ELSE dbI + 1
          /\ UNCHANGED <<dbEnv, dbArr, dbOut, dbExit, dbUsers, dbDbs, dbFailedAt>>

NextDb == DbRead \/ DbCheck \/ DbLoop \/ DbCreateUser \/ DbCreateDatabase \/ DbGrant

-----------------------------------------------------------------------------

-----------------------------------------------------------------------------
(***************************************************************************)
(* AuthProvider, and the route guards that read its context.               *)
(***************************************************************************)

MaxAuthInFlight == 2

Tokens == {"t1", "t2"}
Users == {"u1", "u2"}

\* value.isAuthenticated: !!user && !!token.
isAuthenticated(u, t) == u # Null /\ t # Null

\* A guard that forgets the loading state and the authentication.
ProtectedRouteShowsWhenLoaded(isAuth, loadingNow) ==
    IF loadingNow THEN "placeholder" ELSE "children"

\* ProtectedRoute: <div/> while loading, <Navigate to="/login"/> when not
\* authenticated, the children otherwise.
ProtectedRoute(isAuth, loadingNow) ==
    IF loadingNow THEN "placeholder"
    ELSE IF ~isAuth THEN "redirect"
    ELSE "children"

\* AuthOnly: the children when authenticated, null otherwise.
AuthOnly(isAuth) == IF isAuth THEN "children" ELSE "nothing"

\* The provider re-renders its consumers with the committed state.
Render(u, t, l) ==
    /\ routeView' = ProtectedRoute(isAuthenticated(u, t), l)
    /\ authOnlyView' = AuthOnly(isAuthenticated(u, t))

AuthSnapshot == [user |-> user, token |-> token, stored |-> lsAuthToken]

InitAuth ==
    /\ user = Null
    /\ token = Null
    /\ authIsLoading = TRUE
    /\ lsAuthToken \in Tokens \cup {Null}
    /\ loadAuthPc = "mount"
    /\ loadAuthTok = Null
    /\ authInFlight = [login |-> 0, register |-> 0]
    /\ logoutReqs = {}
    /\ routeView = ProtectedRoute(FALSE, TRUE)
    /\ authOnlyView = AuthOnly(FALSE)
    /\ authLast = [op |-> "none", tok |-> Null,
                   pre |-> [user |-> Null, token |-> Null, stored |-> Null]]
    /\ meRequests = 0
    /\ authRaced = FALSE

\* loadAuth up to its await (lines 33-38), or to its end when nothing is stored.
LoadAuth ==
    /\ loadAuthPc = "mount"
    /\ loadAuthTok' = lsAuthToken
    /\ IF lsAuthToken # Null
       THEN /\ token' = lsAuthToken
            /\ meRequests' = meRequests + 1
            /\ loadAuthPc' = "await"
            /\ authIsLoading' = authIsLoading
            /\ authLast' = [op |-> "load_sent", tok |-> lsAuthToken, pre |-> AuthSnapshot]
            /\ Render(user, lsAuthToken, authIsLoading)
       ELSE /\ authIsLoading' = FALSE
            /\ loadAuthPc' = "done"
            /\ authLast' = [op |-> "load_none", tok |-> Null, pre |-> AuthSnapshot]
            /\ Render(user, token, FALSE)
            /\ UNCHANGED <<token, meRequests>>
    /\ UNCHANGED <<user, lsAuthToken, authInFlight, logoutReqs, authRaced>>
    /\ UNCHANGED notAuth

\* getCurrentUser resolved: lines 39 and 46.
LoadAuthResolved ==
    /\ loadAuthPc = "await"
    /\ \E userData \in Users :
        /\ user' = userData
        /\ Render(userData, token, FALSE)
    /\ authIsLoading' = FALSE
    /\ loadAuthPc' = "done"
    /\ authLast' = [op |-> "load_ok", tok |-> loadAuthTok, pre |-> AuthSnapshot]
    /\ UNCHANGED <<token, lsAuthToken, loadAuthTok, authInFlight, logoutReqs,
                   meRequests, authRaced>>
    /\ UNCHANGED notAuth

\* A catch block that leaves the rejected token where it is.
LoadAuthRejectedKeepsToken ==
    /\ loadAuthPc = "await"
    /\ authIsLoading' = FALSE
    /\ loadAuthPc' = "done"
    /\ Render(user, token, FALSE)
    /\ authLast' = [op |-> "load_rejected", tok |-> loadAuthTok, pre |-> AuthSnapshot]
    /\ UNCHANGED <<user, token, lsAuthToken, loadAuthTok, authInFlight, logoutReqs,
                   meRequests, authRaced>>
    /\ UNCHANGED notAuth

\* getCurrentUser rejected: lines 40-46.
LoadAuthRejected ==
    /\ loadAuthPc = "await"
    /\ lsAuthToken' = Null
    /\ token' = Null
    /\ authIsLoading' = FALSE
    /\ loadAuthPc' = "done"
    /\ Render(user, Null, FALSE)
    /\ authLast' = [op |-> "load_rejected", tok |-> loadAuthTok, pre |-> AuthSnapshot]
    /\ UNCHANGED <<user, loadAuthTok, authInFlight, logoutReqs, meRequests, authRaced>>
    /\ UNCHANGED notAuth

AuthCallsInFlight == authInFlight.login + authInFlight.register

\* login or register called: the call awaits authService (lines 53, 60).  The
\* mount effect runs before any event of the user's.
AuthCall ==
    /\ loadAuthPc # "mount"
    /\ AuthCallsInFlight < MaxAuthInFlight
    /\ \E kind \in {"login", "register"} :
        authInFlight' = [authInFlight EXCEPT ![kind] = @ + 1]
    /\ UNCHANGED <<user, token, authIsLoading, lsAuthToken, loadAuthPc, loadAuthTok,
                   logoutReqs, routeView, authOnlyView, authLast, meRequests, authRaced>>
    /\ UNCHANGED notAuth

\* A login that sets the state and forgets localStorage.setItem.
AuthCallResolvedNoStore ==
    \E kind \in {"login", "register"}, access_token \in Tokens, userData \in Users :
        /\ authInFlight[kind] > 0
        /\ authInFlight' = [authInFlight EXCEPT ![kind] = @ - 1]
        /\ token' = access_token
        /\ user' = userData
        /\ Render(userData, access_token, authIsLoading)
        /\ authLast' = [op |-> "login_ok", tok |-> access_token, pre |-> AuthSnapshot]
        /\ authRaced' = (authRaced \/ loadAuthPc = "await")
        /\ UNCHANGED <<authIsLoading, lsAuthToken, loadAuthPc, loadAuthTok, logoutReqs, meRequests>>
        /\ UNCHANGED notAuth

\* authService.login / register resolved: lines 54-56, 61-63.
AuthCallResolved ==
    \E kind \in {"login", "register"}, access_token \in Tokens, userData \in Users :
        /\ authInFlight[kind] > 0
        /\ authInFlight' = [authInFlight EXCEPT ![kind] = @ - 1]
        /\ token' = access_token
        /\ user' = userData
        /\ lsAuthToken' = access_token
        /\ Render(userData, access_token, authIsLoading)
        /\ authLast' = [op |-> "login_ok", tok |-> access_token, pre |-> AuthSnapshot]
        /\ authRaced' = (authRaced \/ loadAuthPc = "await")
        /\ UNCHANGED <<authIsLoading, loadAuthPc, loadAuthTok, logoutReqs, meRequests>>
        /\ UNCHANGED notAuth

\* authService.login / register rejected: the await throws out of login, no
\* statement after it runs.
AuthCallRejected ==
    \E kind \in {"login", "register"} :
        /\ authInFlight[kind] > 0
        /\ authInFlight' = [authInFlight EXCEPT ![kind] = @ - 1]
        /\ authLast' = [op |-> "login_failed", tok |-> Null, pre |-> AuthSnapshot]
        /\ UNCHANGED <<user, token, authIsLoading, lsAuthToken, loadAuthPc, loadAuthTok,
                       logoutReqs, routeView, authOnlyView, meRequests, authRaced>>
        /\ UNCHANGED notAuth

\* logout: lines 66-73, from the Logout button, which the layout shows to an
\* authenticated user (Sidebar.tsx lines 284-306).  The request to the backend
\* is sent and not awaited.
Logout ==
    /\ isAuthenticated(user, token)
    /\ user' = Null
    /\ token' = Null
    /\ lsAuthToken' = Null
    /\ logoutReqs' = IF token # Null THEN logoutReqs \cup {token} ELSE logoutReqs
    /\ Render(Null, Null, authIsLoading)
    /\ authLast' = [op |-> "logout", tok |-> token, pre |-> AuthSnapshot]
    /\ authRaced' = (authRaced \/ loadAuthPc = "await")
    /\ UNCHANGED <<authIsLoading, loadAuthPc, loadAuthTok, authInFlight, meRequests>>
    /\ UNCHANGED notAuth

\* authService.logout settled: resolved, or rejected into console.error.
LogoutSettled ==
    \E t \in logoutReqs, ok \in BOOLEAN :
        /\ logoutReqs' = logoutReqs \ {t}
        /\ authLast' = [op |-> IF ok THEN "logout_req_ok" ELSE "logout_req_failed",
                        tok |-> t, pre |-> AuthSnapshot]
        /\ UNCHANGED <<user, token, authIsLoading, lsAuthToken, loadAuthPc, loadAuthTok,
                       authInFlight, routeView, authOnlyView, meRequests, authRaced>>
        /\ UNCHANGED notAuth

NextAuth ==
    \/ LoadAuth \/ LoadAuthResolved \/ LoadAuthRejected
    \/ AuthCall \/ AuthCallResolved \/ AuthCallRejected
    \/ Logout \/ LogoutSettled

-----------------------------------------------------------------------------
(***************************************************************************)
(* The shared axios client of services/api.ts and its request interceptor. *)
(***************************************************************************)

\* The config of a request as the endpoints of apiEndpoints make it: the
\* headers of axios.create (lines 4-10), and no Authorization header.
DefaultConfig ==
    [headers |-> [ContentType |-> "application/json", Authorization |-> Undefined]]

\* `Bearer ${token}`
Bearer(t) == "Bearer " \o t

\* An interceptor that sets the header whatever getItem returned.
interceptorNoGuard(config, stored) ==
    [config EXCEPT !.headers.Authorization = Bearer(stored)]

\* The request interceptor (lines 12-21), given what
\* localStorage.getItem('auth_token') returned: null is falsy.
interceptor(config, stored) ==
    IF stored # Null
    THEN [config EXCEPT !.headers.Authorization = Bearer(stored)]
    ELSE config

NoRequest == [headers |-> DefaultConfig.headers, stored |-> Null,
              after |-> "no_request", loggedOut |-> Null]

InitClient == clientReq = NoRequest

\* A request through the client, api.get / post / put / delete of any endpoint:
\* the interceptor runs on its config before it is sent.
ApiRequest ==
    /\ clientReq' = [headers |-> interceptor(DefaultConfig, lsAuthToken).headers,
                     stored |-> lsAuthToken,
                     after |-> authLast.op,
                     loggedOut |-> IF authLast.op = "logout" THEN authLast.tok ELSE Null]
    /\ UNCHANGED notClient

\* AuthProvider and the requests its consumers make through the client.
NextClient ==
    \/ LoadAuth
    \/ LoadAuthResolved
    \/ LoadAuthRejected
    \/ AuthCall
    \/ AuthCallResolved
    \/ AuthCallRejected
    \/ Logout
    \/ LogoutSettled
    \/ ApiRequest

-----------------------------------------------------------------------------
(***************************************************************************)
(* ContextManagement: the strategy selector and its session info.          *)
(***************************************************************************)

MaxCmTasks == 2

Chats == {"c1", "c2"}
Strategies == {"trimming", "summarization", "hybrid"}

NoSessionInfo == [chat_id |-> Null, status |-> Null, current_strategy |-> Null]

\* The session_info the backend reports for a chat.
SessionInfoOf(c) ==
    IF beSession[c] = "no_session"
    THEN [chat_id |-> c, status |-> "no_session", current_strategy |-> Undefined]
    ELSE [chat_id |-> c, status |-> "active", current_strategy |-> beSession[c]]

\* The outcomes of a request that the component tells apart: a response, an
\* error with a detail, an error without one.
CmHttp == {h \in HttpOutcomes : h.body = "object" \/ ~h.ok} \ {h \in HttpOutcomes : h.status = "healthy" \/ h.detail = ""}

CmSnapshot == [selected |-> selectedStrategy, info |-> cmSessionInfo,
               error |-> error, loading |-> loading]

CmStep(op, c, arg, called) ==
    cmLast' = [op |-> op, chat |-> c, arg |-> arg, called |-> called, pre |-> CmSnapshot]

CmTask(kind, c, s, parent) == [kind |-> kind, chat |-> c, strategy |-> s, parent |-> parent]

\* The selector and the clear button as rendered (lines 625-630, 709-711).
selectDisabled == loading \/ cmSessionInfo = NoSessionInfo \/ cmSessionInfo.status = "no_session"
clearDisabled == loading

InitCM ==
    /\ cmChatId \in Chats
    /\ cmSessionInfo = NoSessionInfo
    /\ selectedStrategy = ""
    /\ loading = FALSE
    /\ error = ""
    /\ beSession \in [Chats -> {"no_session"} \cup Strategies]
    \* the effect of lines 458-461 has called loadSessionInfo
    /\ cmTasks = {CmTask("load", cmChatId, "", "none")}
    /\ cmLast = [op |-> "mount", chat |-> cmChatId, arg |-> "", called |-> FALSE,
                 pre |-> [selected |-> "", info |-> NoSessionInfo, error |-> "", loading |-> FALSE]]

\* The parent passes another chatId: the effect of lines 458-461 runs again.
CmChatIdChange ==
    \E c \in Chats \ {cmChatId} :
        /\ Cardinality(cmTasks) < MaxCmTasks
        /\ cmChatId' = c
        /\ cmTasks' = cmTasks \cup {CmTask("load", c, "", "none")}
        /\ CmStep("chat", c, "", FALSE)
        /\ UNCHANGED <<cmSessionInfo, selectedStrategy, loading, error, beSession>>
        /\ UNCHANGED notCM

\* The refresh button (line 534).
CmRefresh ==
    /\ Cardinality(cmTasks) < MaxCmTasks
    /\ cmTasks' = cmTasks \cup {CmTask("load", cmChatId, "", "none")}
    /\ CmStep("refresh", cmChatId, "", FALSE)
    /\ UNCHANGED <<cmChatId, cmSessionInfo, selectedStrategy, loading, error, beSession>>
    /\ UNCHANGED notCM

\* loadSessionInfo after its await (lines 436-444), and what its caller does
\* next: nothing, or the rest of handleStrategyChange (lines 472, 479) or of
\* handleClearSession (lines 491, 498).
CmLoadDone ==
    \E t \in cmTasks, http \in CmHttp :
        LET result == StdHelper("getSessionInfo", http).val
            info == SessionInfoOf(t.chat) IN
        /\ t.kind = "load"
        /\ cmTasks' = cmTasks \ {t}
        /\ IF result.success
           THEN /\ cmSessionInfo' = info
                /\ selectedStrategy' = OrElse(info.current_strategy, "hybrid")
                /\ error' = error
           ELSE /\ error' = result.error
                /\ UNCHANGED <<cmSessionInfo, selectedStrategy>>
        /\ loading' = IF t.parent = "none" THEN loading ELSE FALSE
        /\ CmStep(IF result.success THEN "load_ok" ELSE "load_failed", t.chat,
                  t.strategy, t.parent = "switch")
        /\ UNCHANGED <<cmChatId, beSession>>
        /\ UNCHANGED notCM

\* A handler that shows the new strategy before the backend has answered.
handleStrategyChangeOptimistic ==
    \E newStrategy \in Strategies :
        /\ ~selectDisabled
        /\ loading' = TRUE
        /\ error' = ""
        /\ selectedStrategy' = newStrategy
        /\ cmTasks' = cmTasks \cup {CmTask("switch", cmChatId, newStrategy, "none")}
        /\ CmStep("switch_sent", cmChatId, newStrategy, FALSE)
        /\ UNCHANGED <<cmChatId, cmSessionInfo, beSession>>
        /\ UNCHANGED notCM

\* handleStrategyChange up to its await (lines 463-468), called by the
\* selector's onChange when the selector is enabled.
handleStrategyChange ==
    \E newStrategy \in Strategies :
        /\ ~selectDisabled
        /\ loading' = TRUE
        /\ error' = ""
        /\ cmTasks' = cmTasks \cup {CmTask("switch", cmChatId, newStrategy, "none")}
        /\ CmStep("switch_sent", cmChatId, newStrategy, FALSE)
        /\ UNCHANGED <<cmChatId, cmSessionInfo, selectedStrategy, beSession>>
        /\ UNCHANGED notCM

\* switchContextStrategy settled (lines 469-480).  The backend accepts a
\* switch for a chat that has a session; on success the handler goes on to
\* await loadSessionInfo.
CmSwitchDone ==
    \E t \in cmTasks, http \in CmHttp :
        LET result == StdHelper("switchContextStrategy", http).val IN
        /\ t.kind = "switch"
        /\ http.ok => beSession[t.chat] # "no_session"
        /\ IF result.success
           THEN /\ beSession' = [beSession EXCEPT ![t.chat] = t.strategy]
                /\ selectedStrategy' = t.strategy
                /\ cmTasks' = (cmTasks \ {t}) \cup {CmTask("load", t.chat, t.strategy, "switch")}
                /\ CmStep("switch_ok", t.chat, t.strategy, FALSE)
                /\ UNCHANGED <<error, loading>>
           ELSE /\ error' = result.error
                /\ loading' = FALSE
                /\ cmTasks' = cmTasks \ {t}
                /\ CmStep("switch_failed", t.chat, t.strategy, FALSE)
                /\ UNCHANGED <<beSession, selectedStrategy>>
        /\ UNCHANGED <<cmChatId, cmSessionInfo>>
        /\ UNCHANGED notCM

\* handleClearSession up to its await (lines 483-488).
handleClearSession ==
    /\ ~clearDisabled
    /\ loading' = TRUE
    /\ error' = ""
    /\ cmTasks' = cmTasks \cup {CmTask("clear", cmChatId, "", "none")}
    /\ CmStep("clear_sent", cmChatId, "", FALSE)
    /\ UNCHANGED <<cmChatId, cmSessionInfo, selectedStrategy, beSession>>
    /\ UNCHANGED notCM

\* clearSession settled (lines 489-499): the backend drops the session.
CmClearDone ==
    \E t \in cmTasks, http \in CmHttp :
        LET result == StdHelper("clearSession", http).val IN
        /\ t.kind = "clear"
        /\ IF result.success
           THEN /\ beSession' = [beSession EXCEPT ![t.chat] = "no_session"]
                /\ cmTasks' = (cmTasks \ {t}) \cup {CmTask("load", t.chat, "", "clear")}
                /\ CmStep("clear_ok", t.chat, "", FALSE)
                /\ UNCHANGED <<error, loading>>
           ELSE /\ error' = result.error
                /\ loading' = FALSE
                /\ cmTasks' = cmTasks \ {t}
                /\ CmStep("clear_failed", t.chat, "", FALSE)
                /\ UNCHANGED beSession
        /\ UNCHANGED <<cmChatId, cmSessionInfo, selectedStrategy>>
        /\ UNCHANGED notCM

\* A message sent in the workspace creates the chat's session at the backend
\* ("Send a message first to create a session", line 597).
BeSessionCreated ==
    \E c \in Chats, s \in Strategies :
        /\ beSession[c] = "no_session"
        /\ beSession' = [beSession EXCEPT ![c] = s]
        /\ CmStep("backend", c, "", FALSE)
        /\ UNCHANGED <<cmChatId, cmSessionInfo, selectedStrategy, loading, error, cmTasks>>
        /\ UNCHANGED notCM

NextCM ==
    \/ CmChatIdChange \/ CmRefresh \/ CmLoadDone
    \/ handleStrategyChange \/ CmSwitchDone
    \/ handleClearSession \/ CmClearDone
    \/ BeSessionCreated

-----------------------------------------------------------------------------
(***************************************************************************)
(* ResearchWorkspace, and the focus handlers of PaperDetail that share its *)
(* sessionStorage keys.  An async function is a task: a record of where it *)
(* awaits and of what its closure captured (chatId, focusedPapers) in the  *)
(* render that created it.  One action is what runs between two awaits,    *)
(* with the effects of the render it causes.                               *)
(***************************************************************************)

MaxChains == 1
MaxFocusReqs == 1
MaxPdReqs == 1
MaxSends == 1
MaxBeFocus == 2

Papers == {"p1", "p2"}
\* The paper PaperDetail shows.
pdPaper == "p1"
\* The id handleChatAboutPaper makes up when none is stored: chat_${Date.now()}.
ClientChat == "cx"
\* Every value a chat id takes: '' before a chat is selected.
ChatIds == Chats \cup {ClientChat, ""}

WsTask(kind, pc, c, arg, fp) ==
    [kind |-> kind, pc |-> pc, chat |-> c, arg |-> arg, fp |-> fp]

\* The chat id in the URL of the request a task of the workspace awaits, Null
\* for a request that names no chat (listChats, createChat).
\*   loadMessages(chatIdToLoad), line 377; getSessionInfo(chatId), line 130;
\*   getFocusedPapers(chatId), line 265; add/removeFocusedPaper(chatId, ...),
\*   lines 288, 295, 307; clearFocusedPapers(chatId), line 319;
\*   sendMessage(chatId, ...), line 435.
Addressee(t) ==
    IF t.kind \in {"init", "switch"} /\ t.pc = "msgs" THEN t.arg
    ELSE IF t.kind = "switch" THEN t.chat
    ELSE IF t.kind \in {"loadFocus", "add", "remove", "clear"} THEN t.chat
    ELSE IF t.kind = "send" /\ t.pc = "await" THEN t.chat
    ELSE Null

\* An entry of the conversation: its kind, the chat it was made for, and the
\* text of a message the user typed.
Msg(type, c, text) == [type |-> type, chat |-> c, text |-> text]
Greeting == Msg("greeting", "", "")
Placeholder == Msg("placeholder", "", "")
Cleared == Msg("cleared", "", "")

\* The calls in flight the model follows at a time: the chains that select a
\* chat (initializeChat, handleSwitchChat, handleCreateChat), the requests of
\* the focus handlers that concern one paper (those that add it or remove it,
\* and those that clear the list), and the requests of PaperDetail.
Bounded(tasks) ==
    /\ Cardinality({t \in tasks : t.kind \in {"init", "switch", "create"}}) <= MaxChains
    /\ \A p \in Papers :
           Cardinality({t \in tasks : \/ t.kind \in {"add", "remove"} /\ t.arg = p
                                      \/ t.kind = "clear"}) <= MaxFocusReqs
    /\ Cardinality({t \in tasks : t.kind \in {"pdFocus", "pdChat"}}) <= MaxPdReqs

\* The outcomes of a request the workspace tells apart.
HttpOk == [ok |-> TRUE, body |-> "object", status |-> "degraded", detail |-> Undefined]
HttpNoData == [ok |-> TRUE, body |-> "empty", status |-> "degraded", detail |-> Undefined]
HttpFail == [ok |-> FALSE, body |-> "null", status |-> "degraded", detail |-> Undefined]
WsHttp == {HttpOk, HttpNoData, HttpFail}

\* sessionStorage.getItem / setItem on the focused_papers_<key> entries.
NotStored == [stored |-> FALSE, list |-> <<>>]
Stored(l) == [stored |-> TRUE, list |-> l]
SetItem(ss, key, l) == [ss EXCEPT ![key] = Stored(l)]

\* JavaScript's String.prototype.trim on the inputs of the model.
Trim(s) == IF s = " " THEN "" ELSE s

\* arr.filter(p => p.arxiv_id !== id)
RECURSIVE Without(_, _)
Without(s, id) ==
    IF s = <<>> THEN <<>>
    ELSE IF s[1] = id THEN Without(Tail(s), id)
    ELSE <<s[1]>> \o Without(Tail(s), id)

\* The loop of lines 268-275: the first occurrence of each arxiv_id.
RECURSIVE Dedupe(_)
Dedupe(s) ==
    IF s = <<>> THEN <<>>
    ELSE Dedupe(SubSeq(s, 1, Len(s) - 1)) \o
         (IF s[Len(s)] \in SeqRange(SubSeq(s, 1, Len(s) - 1)) THEN <<>> ELSE <<s[Len(s)]>>)

\* A reload that keeps the backend's list as it comes.
NoDedupe(s) == s

\* What loadFocusedPapers makes of the list in the response.
LoadedList(s) == Dedupe(s)

\* The messages GET /chats/<c>/messages holds, oldest first after .reverse().
RECURSIVE Exchanges(_, _)
Exchanges(c, n) ==
    IF n = 0 THEN <<>>
    ELSE Exchanges(c, n - 1) \o <<Msg("user", c, "hi"), Msg("assistant", c, "")>>

\* loadMessages (lines 375-401): the messages of the response when the helper
\* succeeded and res.messages is truthy (an empty array is), the placeholder
\* otherwise.
loadMessages(c, http) ==
    LET res == StdHelper("getMessages", http).val IN
    IF res.success /\ res.data = "object" THEN Exchanges(c, beMsgs[c]) ELSE <<Placeholder>>

\* The render after a step and its effects, given what the step set: chatId
\* cid1, isInitialized init1, focusedPapers fp1 (fpSet: setFocusedPapers was
\* called), the storage ss1 and the tasks tasks1 the step left.
\*   lines 170-179: chatId changed and focused_papers_<chatId> is stored:
\*                  setFocusedPapers(JSON.parse(stored));
\*   lines 188-190: focusedPapers or chatId changed: the list is stored under
\*                  focused_papers_<chatId>;
\*   lines 237-241: chatId or isInitialized changed, both truthy:
\*                  loadSessionInfo() and loadFocusedPapers().  The response to
\*                  the former sets sessionInfo alone, which is not followed
\*                  here, and so neither is the call.
Commit(cid1, init1, fp1, fpSet, ss1, tasks1) ==
    LET changed  == cid1 # chatId
        restored == changed /\ ss1[cid1].stored
        fpF      == IF restored THEN ss1[cid1].list ELSE fp1
        reload   == (changed \/ init1 # isInitialized) /\ init1 /\ cid1 # ""
    IN
    /\ chatId' = cid1
    /\ isInitialized' = init1
    /\ focusedPapers' = fpF
    /\ ssFocused' = IF changed \/ fpSet THEN SetItem(ss1, cid1, fpF) ELSE ss1
    /\ wsTasks' = tasks1 \cup
                  (IF reload THEN {WsTask("loadFocus", "get", cid1, "", <<>>)} ELSE {})
    /\ Bounded(wsTasks')

\* A step that sets neither chatId, isInitialized nor focusedPapers.
Quiet(tasks1) ==
    /\ wsTasks' = tasks1
    /\ Bounded(tasks1)
    /\ UNCHANGED <<chatId, isInitialized, focusedPapers, ssFocused>>

InitWs ==
    /\ page = "paper"
    /\ chatId = ""
    /\ isInitialized = FALSE
    /\ messages = <<Greeting>>
    /\ currentMessage = ""
    /\ isLoading = FALSE
    /\ focusedPapers = <<>>
    /\ chats = <<>>
    /\ ssCurrentChatId \in {Null, "c2"}
    /\ ssFocused = [c \in ChatIds |-> NotStored]
    /\ isFocused = FALSE
    /\ isFocusLoading = FALSE
    /\ beChats \in {<<>>, <<"c1", "c2">>}
    /\ beFocused = [c \in ChatIds |-> <<>>]
    /\ beMsgs = [c \in Chats |-> 0]
    /\ beSources \in {{pdPaper}, Papers}
    /\ wsTasks = {}
    /\ sendCount = 0
    /\ cleanSwitch = FALSE

\* The workspace mounts: the first render and its effects (lines 170-190),
\* then initializeChat up to its first await (line 195).
Mount(tasks1) ==
    LET fpF == IF ssFocused[""].stored THEN ssFocused[""].list ELSE <<>> IN
    /\ page' = "research"
    /\ focusedPapers' = fpF
    /\ ssFocused' = SetItem(ssFocused, "", fpF)
    /\ wsTasks' = tasks1 \cup {WsTask("init", "list", "", "", <<>>)}
    /\ Bounded(wsTasks')
    /\ UNCHANGED <<chatId, isInitialized>>

\* The user opens /research.
NavigateToResearch ==
    /\ page = "paper"
    /\ Mount(wsTasks)
    /\ UNCHANGED <<messages, currentMessage, isLoading, chats, ssCurrentChatId,
                   isFocused, isFocusLoading, beChats, beFocused, beMsgs, sendCount>>
    /\ UNCHANGED <<notWs, beSources>>
    /\ cleanSwitch' = FALSE

\* initializeChat after listChats (lines 196-212).
InitListDone ==
    \E t \in wsTasks, http \in WsHttp :
        LET res == StdHelper("listChats", http).val
            existingChats == IF res.success /\ res.data = "object" THEN beChats ELSE <<>>
            savedChatId == ssCurrentChatId
            rest == wsTasks \ {t}
        IN
        /\ t.kind = "init" /\ t.pc = "list"
        /\ chats' = existingChats
        /\ IF savedChatId # Null /\ savedChatId \in SeqRange(existingChats)
           THEN /\ Commit(savedChatId, isInitialized, focusedPapers, FALSE, ssFocused,
                          rest \cup {WsTask("init", "msgs", chatId, savedChatId, <<>>)})
                /\ UNCHANGED ssCurrentChatId
           ELSE IF Len(existingChats) > 0
           THEN /\ ssCurrentChatId' = existingChats[1]
                /\ Commit(existingChats[1], isInitialized, focusedPapers, FALSE, ssFocused,
                          rest \cup {WsTask("init", "msgs", chatId, existingChats[1], <<>>)})
           ELSE /\ Quiet(rest \cup {WsTask("init", "create", chatId, "", <<>>)})
                /\ UNCHANGED ssCurrentChatId
        /\ UNCHANGED <<page, messages, currentMessage, isLoading, isFocused, isFocusLoading, beChats, beFocused, beMsgs, sendCount>>
        /\ UNCHANGED <<notWs, beSources>>
        /\ cleanSwitch' = FALSE

\* initializeChat after loadMessages (lines 203 / 209, then 227).
InitMsgsDone ==
    \E t \in wsTasks, http \in WsHttp :
        /\ t.kind = "init" /\ t.pc = "msgs"
        /\ messages' = loadMessages(t.arg, http)
        /\ Commit(chatId, TRUE, focusedPapers, FALSE, ssFocused, wsTasks \ {t})
        /\ UNCHANGED <<page, currentMessage, isLoading, chats, ssCurrentChatId,
                       isFocused, isFocusLoading, beChats, beFocused, beMsgs, sendCount>>
        /\ UNCHANGED <<notWs, beSources>>
        /\ cleanSwitch' = FALSE

\* The ids the backend can give a new chat, and the one it gives.
FreshChats == Chats \ SeqRange(beChats)
NewChatId == IF "c1" \in FreshChats THEN "c1" ELSE "c2"

\* initializeChat after createChat (lines 213-227).
InitCreateDone ==
    \E t \in wsTasks, http \in WsHttp :
        LET res == StdHelper("createChat", http).val IN
        /\ t.kind = "init" /\ t.pc = "create"
        /\ http = HttpOk => FreshChats # {}
        /\ IF res.success /\ res.data = "object"
           THEN /\ beChats' = <<NewChatId>> \o beChats
                /\ ssCurrentChatId' = NewChatId
                /\ chats' = <<NewChatId>>
                /\ messages' = <<Greeting>>
                /\ Commit(NewChatId, TRUE, focusedPapers, FALSE, ssFocused, wsTasks \ {t})
           ELSE /\ Commit(chatId, TRUE, focusedPapers, FALSE, ssFocused, wsTasks \ {t})
                /\ UNCHANGED <<beChats, ssCurrentChatId, chats, messages>>
        /\ UNCHANGED <<page, currentMessage, isLoading, isFocused, isFocusLoading, beFocused, beMsgs, sendCount>>
        /\ UNCHANGED <<notWs, beSources>>
        /\ cleanSwitch' = FALSE

\* handleSwitchChat up to its first await (lines 337-341), from a click on a
\* chat of the list (line 649).
handleSwitchChat ==
    \E nextChatId \in SeqRange(chats) :
        /\ page = "research"
        /\ nextChatId # "" /\ nextChatId # chatId
        /\ ssCurrentChatId' = nextChatId
        /\ Commit(nextChatId, isInitialized, focusedPapers, FALSE, ssFocused,
                  wsTasks \cup {WsTask("switch", "msgs", chatId, nextChatId, <<>>)})
        /\ UNCHANGED <<page, messages, currentMessage, isLoading, chats,
                       isFocused, isFocusLoading, beChats, beFocused, beMsgs, sendCount>>
        /\ UNCHANGED <<notWs, beSources>>
        /\ cleanSwitch' = (isInitialized /\ chatId # "" /\ wsTasks = {})

\* handleSwitchChat after loadMessages(nextChatId): it calls loadSessionInfo of
\* the render it was created in (line 342), whose chatId is t.chat.
SwitchMsgsDone ==
    \E t \in wsTasks, http \in WsHttp :
        /\ t.kind = "switch" /\ t.pc = "msgs"
        /\ messages' = loadMessages(t.arg, http)
        /\ Quiet((wsTasks \ {t}) \cup {WsTask("switch", "sess", t.chat, t.arg, <<>>)})
        /\ UNCHANGED <<page, currentMessage, isLoading, chats, ssCurrentChatId,
                       isFocused, isFocusLoading, beChats, beFocused, beMsgs, sendCount>>
        /\ UNCHANGED <<notWs, beSources>>
        /\ cleanSwitch' = (cleanSwitch /\ http.ok)

\* handleSwitchChat after loadSessionInfo: it calls loadFocusedPapers of the
\* same render (line 343).
SwitchSessDone ==
    \E t \in wsTasks, http \in WsHttp :
        /\ t.kind = "switch" /\ t.pc = "sess"
        /\ Quiet((wsTasks \ {t}) \cup {WsTask("switch", "focus", t.chat, t.arg, <<>>)})
        /\ UNCHANGED <<page, messages, currentMessage, isLoading, chats, ssCurrentChatId,
                       isFocused, isFocusLoading, beChats, beFocused, beMsgs, sendCount>>
        /\ UNCHANGED <<notWs, beSources>>
        /\ cleanSwitch' = (cleanSwitch /\ http.ok)

\* loadFocusedPapers after its await (lines 266-281), called for chat c.
FocusLoaded(t, ok) ==
    IF ok /\ t.chat # ""
    THEN LET deduped == LoadedList(beFocused[t.chat]) IN
         Commit(chatId, isInitialized, deduped, TRUE, SetItem(ssFocused, t.chat, deduped),
                wsTasks \ {t})
    ELSE Commit(chatId, isInitialized, focusedPapers, FALSE, ssFocused, wsTasks \ {t})

\* handleSwitchChat after loadFocusedPapers, and the loadFocusedPapers of the
\* effect of lines 237-241 and of the window's focus and visibility events.
LoadFocusDone ==
    \E t \in wsTasks, ok \in BOOLEAN :
        /\ \/ t.kind = "switch" /\ t.pc = "focus"
           \/ t.kind = "loadFocus"
        /\ FocusLoaded(t, ok)
        /\ UNCHANGED <<page, messages, currentMessage, isLoading, chats,
                       ssCurrentChatId, isFocused, isFocusLoading, beChats, beFocused,
                       beMsgs, sendCount>>
        /\ UNCHANGED <<notWs, beSources>>
        /\ cleanSwitch' = (cleanSwitch /\ ok)

\* The window regains focus, or the document becomes visible (lines 243-261).
WindowFocus ==
    /\ page = "research"
    /\ Quiet(wsTasks \cup {WsTask("loadFocus", "get", chatId, "", <<>>)})
    /\ UNCHANGED <<page, messages, currentMessage, isLoading, chats,
                   ssCurrentChatId, isFocused, isFocusLoading, beChats, beFocused,
                   beMsgs, sendCount>>
    /\ UNCHANGED <<notWs, beSources>>
    /\ cleanSwitch' = FALSE


\* handleFocusPaper up to its await (lines 284-295), from the focus button of a
\* source in the sidebar, and handleUnfocusPaper (lines 305-307), from the
\* remove button of a paper in the bar of focused papers.
FocusRequest(kind, arxivId) ==
    /\ page = "research"
    /\ Quiet(wsTasks \cup {WsTask(kind, "await", chatId, arxivId, focusedPapers)})
    /\ UNCHANGED <<page, messages, currentMessage, isLoading, chats,
                   ssCurrentChatId, isFocused, isFocusLoading, beChats, beFocused,
                   beMsgs, sendCount>>
    /\ UNCHANGED <<notWs, beSources>>
    /\ cleanSwitch' = FALSE

handleFocusPaper ==
    \E arxivId \in beSources :
        LET alreadyFocused == arxivId \in SeqRange(focusedPapers) IN
        FocusRequest(IF alreadyFocused THEN "remove" ELSE "add", arxivId)

handleUnfocusPaper ==
    \E arxivId \in SeqRange(focusedPapers) : FocusRequest("remove", arxivId)

\* What the handlers make of the list they captured once the request is done
\* (lines 289 and 309; line 297).
newFocusedPapers(kind, fp, arxivId) ==
    IF kind = "remove" THEN Without(fp, arxivId) ELSE Append(fp, arxivId)

\* The backend's list after the request: it removes every entry of the paper,
\* and appends without looking for one.
BackendFocus(kind, c, arxivId) ==
    beFocused' = [beFocused EXCEPT ![c] =
                    IF kind = "remove" THEN Without(@, arxivId) ELSE Append(@, arxivId)]

\* The backend answers 2xx for a chat id that is not empty, and keeps at most
\* MaxBeFocus entries in a list.
BackendAccepts(kind, c) ==
    /\ c # ""
    /\ kind = "add" => Len(beFocused[c]) < MaxBeFocus

\* handleFocusPaper and handleUnfocusPaper after their await (lines 289-292,
\* 297-299, 309-311), or their catch.
FocusRequestDone ==
    \E t \in wsTasks, ok \in BOOLEAN :
        /\ t.kind \in {"add", "remove"}
        /\ ok => BackendAccepts(t.kind, t.chat)
        /\ IF ok
           THEN LET new == newFocusedPapers(t.kind, t.fp, t.arg) IN
                /\ BackendFocus(t.kind, t.chat, t.arg)
                /\ Commit(chatId, isInitialized, new, TRUE, SetItem(ssFocused, t.chat, new),
                          wsTasks \ {t})
           ELSE /\ Commit(chatId, isInitialized, focusedPapers, FALSE, ssFocused,
                          wsTasks \ {t})
                /\ UNCHANGED beFocused
        /\ UNCHANGED <<page, messages, currentMessage, isLoading, chats,
                       ssCurrentChatId, isFocused, isFocusLoading, beChats, beMsgs, sendCount>>
        /\ UNCHANGED <<notWs, beSources>>
        /\ cleanSwitch' = FALSE

\* handleClearFocus up to its await (line 319), from the bar of focused papers,
\* which shows when the list is not empty.
handleClearFocus ==
    /\ page = "research"
    /\ focusedPapers # <<>>
    /\ Quiet(wsTasks \cup {WsTask("clear", "await", chatId, "", <<>>)})
    /\ UNCHANGED <<page, messages, currentMessage, isLoading, chats,
                   ssCurrentChatId, isFocused, isFocusLoading, beChats, beFocused,
                   beMsgs, sendCount>>
    /\ UNCHANGED <<notWs, beSources>>
    /\ cleanSwitch' = FALSE

\* handleClearFocus after its await (line 320), or its catch.
ClearFocusDone ==
    \E t \in wsTasks, ok \in BOOLEAN :
        /\ t.kind = "clear"
        /\ ok => t.chat # ""
        /\ IF ok
           THEN /\ beFocused' = [beFocused EXCEPT ![t.chat] = <<>>]
                /\ Commit(chatId, isInitialized, <<>>, TRUE, ssFocused, wsTasks \ {t})
           ELSE /\ Commit(chatId, isInitialized, focusedPapers, FALSE, ssFocused,
                          wsTasks \ {t})
                /\ UNCHANGED beFocused
        /\ UNCHANGED <<page, messages, currentMessage, isLoading, chats,
                       ssCurrentChatId, isFocused, isFocusLoading, beChats, beMsgs, sendCount>>
        /\ UNCHANGED <<notWs, beSources>>
        /\ cleanSwitch' = FALSE

\* handleCreateChat up to its await (lines 350-356).
handleCreateChat ==
    /\ page = "research"
    /\ Quiet(wsTasks \cup {WsTask("create", "create", chatId, "", <<>>)})
    /\ UNCHANGED <<page, messages, currentMessage, isLoading, chats,
                   ssCurrentChatId, isFocused, isFocusLoading, beChats, beFocused,
                   beMsgs, sendCount>>
    /\ UNCHANGED <<notWs, beSources>>
    /\ cleanSwitch' = FALSE

\* handleCreateChat after createChat (lines 357-363): loadChats is awaited next.
CreateDone ==
    \E t \in wsTasks, http \in WsHttp :
        LET res == StdHelper("createChat", http).val IN
        /\ t.kind = "create" /\ t.pc = "create"
        /\ http = HttpOk => FreshChats # {}
        /\ IF res.success /\ res.data = "object"
           THEN /\ beChats' = <<NewChatId>> \o beChats
                /\ Quiet((wsTasks \ {t}) \cup
                         {WsTask("create", "chats", t.chat, NewChatId, <<>>)})
           ELSE /\ Quiet(wsTasks \ {t})
                /\ UNCHANGED beChats
        /\ UNCHANGED <<page, messages, currentMessage, isLoading, chats,
                       ssCurrentChatId, isFocused, isFocusLoading, beFocused, beMsgs, sendCount>>
        /\ UNCHANGED <<notWs, beSources>>
        /\ cleanSwitch' = FALSE

\* loadChats after its await (lines 328-331).
ChatsLoaded(http) ==
    LET res == StdHelper("listChats", http).val IN
    chats' = IF ~res.success THEN chats
             ELSE IF res.data = "object" THEN beChats ELSE <<>>

\* handleCreateChat after loadChats (line 359): handleSwitchChat(res.chat.id) of
\* the render the handler was created in, up to its first await.
CreateChatsDone ==
    \E t \in wsTasks, http \in WsHttp :
        /\ t.kind = "create" /\ t.pc = "chats"
        /\ ChatsLoaded(http)
        /\ IF t.arg = t.chat
           THEN /\ Quiet(wsTasks \ {t})
                /\ UNCHANGED ssCurrentChatId
           ELSE /\ ssCurrentChatId' = t.arg
                /\ Commit(t.arg, isInitialized, focusedPapers, FALSE, ssFocused,
                          (wsTasks \ {t}) \cup {WsTask("switch", "msgs", t.chat, t.arg, <<>>)})
        /\ UNCHANGED <<page, messages, currentMessage, isLoading, isFocused, isFocusLoading, beChats, beFocused, beMsgs, sendCount>>
        /\ UNCHANGED <<notWs, beSources>>
        /\ cleanSwitch' = FALSE

\* What the input field can hold.
Texts == {"", " ", "hi"}

\* A handler that sends whatever the input holds.
sendIgnoredNever(text, busy) == FALSE

\* Line 421.
sendIgnored(text, busy) == Trim(text) = "" \/ busy

\* The user fills the input field (line 874, disabled while a send is in
\* flight), and handleSendMessage runs up to its await (lines 420-435), from
\* the Enter key or the send button.  What the field holds is read by this
\* handler alone, so typing is taken together with the key that sends.
handleSendMessage ==
    \E text \in Texts :
        /\ page = "research"
        /\ isLoading => text = currentMessage
        /\ IF sendIgnored(text, isLoading)
           THEN /\ currentMessage' = text
                /\ Quiet(wsTasks)
                /\ UNCHANGED <<messages, isLoading, sendCount>>
           ELSE /\ sendCount < MaxSends
                /\ sendCount' = sendCount + 1
                /\ messages' = Append(messages, Msg("user", chatId, text))
                /\ currentMessage' = ""
                /\ isLoading' = TRUE
                /\ Quiet(wsTasks \cup {WsTask("send", "await", chatId, "", <<>>)})
        /\ UNCHANGED <<page, chats, ssCurrentChatId, isFocused, isFocusLoading,
                       beChats, beFocused, beMsgs>>
        /\ UNCHANGED <<notWs, beSources>>
        /\ cleanSwitch' = FALSE

\* handleSendMessage after sendMessage (lines 437-467): the reply and then
\* loadChats, or the error entry and the finally block.
SendDone ==
    \E t \in wsTasks, http \in WsHttp :
        LET res == StdHelper("sendMessage", http).val IN
        /\ t.kind = "send" /\ t.pc = "await"
        /\ http.ok => t.chat \in SeqRange(beChats)
        /\ IF res.success /\ res.data = "object"
           THEN /\ messages' = Append(messages, Msg("assistant", t.chat, ""))
                /\ beMsgs' = [beMsgs EXCEPT ![t.chat] = @ + 1]
                /\ Quiet((wsTasks \ {t}) \cup {WsTask("send", "chats", t.chat, "", <<>>)})
                /\ UNCHANGED isLoading
           ELSE /\ messages' = Append(messages, Msg("error", t.chat, ""))
                /\ isLoading' = FALSE
                /\ Quiet(wsTasks \ {t})
                /\ UNCHANGED beMsgs
        /\ UNCHANGED <<page, currentMessage, chats, ssCurrentChatId,
                       isFocused, isFocusLoading, beChats, beFocused, sendCount>>
        /\ UNCHANGED <<notWs, beSources>>
        /\ cleanSwitch' = FALSE

\* handleSendMessage after loadChats (line 448), and its finally block.
SendChatsDone ==
    \E t \in wsTasks, http \in WsHttp :
        /\ t.kind = "send" /\ t.pc = "chats"
        /\ ChatsLoaded(http)
        /\ isLoading' = FALSE
        /\ Quiet(wsTasks \ {t})
        /\ UNCHANGED <<page, messages, currentMessage, ssCurrentChatId,
                       isFocused, isFocusLoading, beChats, beFocused, beMsgs, sendCount>>
        /\ UNCHANGED <<notWs, beSources>>
        /\ cleanSwitch' = FALSE

\* The quick action that clears the conversation (lines 965-973).
ClearSessionClick ==
    /\ page = "research"
    /\ messages' = <<Cleared>>
    /\ Quiet(wsTasks)
    /\ UNCHANGED <<page, currentMessage, isLoading, chats, ssCurrentChatId,
                   isFocused, isFocusLoading, beChats, beFocused, beMsgs, sendCount>>
    /\ UNCHANGED <<notWs, beSources>>
    /\ cleanSwitch' = FALSE

\* PaperDetail: checkIfFocused (lines 176-197).
checkIfFocused(id) ==
    /\ ssCurrentChatId # Null
    /\ ssFocused[ssCurrentChatId].stored
    /\ id \in SeqRange(ssFocused[ssCurrentChatId].list)

\* The effect of PaperDetail that runs checkIfFocused for the paper shown.
pdCheckIfFocused ==
    /\ page = "paper"
    /\ isFocused' = checkIfFocused(pdPaper)
    /\ UNCHANGED <<page, chatId, isInitialized, messages, currentMessage, isLoading,
                   focusedPapers, chats, ssCurrentChatId, ssFocused,
                   isFocusLoading, beChats, beFocused, beMsgs, wsTasks, sendCount>>
    /\ UNCHANGED <<notWs, beSources>>
    /\ cleanSwitch' = FALSE

\* PaperDetail: handleFocus up to its await (lines 243-277).
pdHandleFocus ==
    /\ page = "paper"
    /\ ~isFocusLoading
    /\ IF ssCurrentChatId = Null
       THEN /\ Mount(wsTasks)
            /\ UNCHANGED <<isFocused, isFocusLoading>>
       ELSE LET list == ssFocused[ssCurrentChatId].list
                kind == IF isFocused THEN "remove" ELSE "add"
            IN
            IF ~isFocused /\ pdPaper \in SeqRange(list)
            THEN /\ isFocused' = TRUE
                 /\ UNCHANGED <<page, chatId, isInitialized, focusedPapers, ssFocused,
                                wsTasks, isFocusLoading>>
            ELSE /\ isFocusLoading' = TRUE
                 /\ wsTasks' = wsTasks \cup {WsTask("pdFocus", kind, ssCurrentChatId, pdPaper, list)}
                 /\ Bounded(wsTasks')
                 /\ UNCHANGED <<page, chatId, isInitialized, focusedPapers, ssFocused,
                                isFocused>>
    /\ UNCHANGED <<messages, currentMessage, isLoading, chats, ssCurrentChatId,
                   beChats, beFocused, beMsgs, sendCount>>
    /\ UNCHANGED <<notWs, beSources>>
    /\ cleanSwitch' = FALSE

\* PaperDetail: handleFocus after its await (lines 262-265, 279-285), its
\* catch and its finally block.
PdFocusDone ==
    \E t \in wsTasks, ok \in BOOLEAN :
        /\ t.kind = "pdFocus"
        /\ ok => BackendAccepts(t.pc, t.chat)
        /\ IF ok
           THEN /\ BackendFocus(t.pc, t.chat, t.arg)
                /\ ssFocused' = SetItem(ssFocused, t.chat, newFocusedPapers(t.pc, t.fp, t.arg))
                /\ isFocused' = (t.pc = "add")
           ELSE UNCHANGED <<beFocused, ssFocused, isFocused>>
        /\ isFocusLoading' = FALSE
        /\ wsTasks' = wsTasks \ {t}
        /\ UNCHANGED <<page, chatId, isInitialized, messages, currentMessage, isLoading,
                       focusedPapers, chats, ssCurrentChatId, beChats, beMsgs,
                       sendCount>>
        /\ UNCHANGED <<notWs, beSources>>
        /\ cleanSwitch' = FALSE

\* PaperDetail: handleChatAboutPaper up to its await (lines 295-305).
pdHandleChatAboutPaper ==
    LET c == IF ssCurrentChatId = Null THEN ClientChat ELSE ssCurrentChatId IN
    /\ page = "paper"
    /\ ssCurrentChatId' = c
    /\ wsTasks' = wsTasks \cup {WsTask("pdChat", "await", c, pdPaper, <<>>)}
    /\ Bounded(wsTasks')
    /\ UNCHANGED <<page, chatId, isInitialized, messages, currentMessage, isLoading,
                   focusedPapers, chats, ssFocused, isFocused, isFocusLoading,
                   beChats, beFocused, beMsgs, sendCount>>
    /\ UNCHANGED <<notWs, beSources>>
    /\ cleanSwitch' = FALSE

\* PaperDetail: handleChatAboutPaper after its await (lines 310-323), or its
\* catch (line 326): the list is read from the storage now, and the workspace
\* opens.
PdChatDone ==
    \E t \in wsTasks, ok \in BOOLEAN :
        LET list == ssFocused[t.chat].list
            alreadyFocused == t.arg \in SeqRange(list)
            ss1 == IF ok /\ ~alreadyFocused THEN SetItem(ssFocused, t.chat, Append(list, t.arg))
                   ELSE ssFocused
        IN
        /\ t.kind = "pdChat"
        /\ ok => BackendAccepts("add", t.chat)
        /\ IF ok THEN BackendFocus("add", t.chat, t.arg) ELSE UNCHANGED beFocused
        /\ IF page = "paper"
           THEN LET fpF == IF ss1[""].stored THEN ss1[""].list ELSE <<>> IN
                /\ page' = "research"
                /\ focusedPapers' = fpF
                /\ ssFocused' = SetItem(ss1, "", fpF)
                /\ wsTasks' = (wsTasks \ {t}) \cup {WsTask("init", "list", "", "", <<>>)}
                       ELSE /\ ssFocused' = ss1
                /\ wsTasks' = wsTasks \ {t}
                /\ UNCHANGED <<page, focusedPapers>>
        /\ UNCHANGED <<chatId, isInitialized, messages, currentMessage, isLoading, chats, ssCurrentChatId, isFocused, isFocusLoading, beChats, beMsgs,
                       sendCount>>
        /\ UNCHANGED <<notWs, beSources>>
        /\ cleanSwitch' = FALSE

\* The conversation: the chats, their messages and the sends.
NextChat ==
    \/ NavigateToResearch
    \/ InitListDone
    \/ InitMsgsDone
    \/ InitCreateDone
    \/ handleSwitchChat
    \/ SwitchMsgsDone
    \/ SwitchSessDone
    \/ LoadFocusDone
    \/ handleCreateChat
    \/ CreateDone
    \/ CreateChatsDone
    \/ handleSendMessage
    \/ SendDone
    \/ SendChatsDone
    \/ ClearSessionClick

\* The focused papers of the chats, in the workspace and in PaperDetail.
NextFocus ==
    \/ NavigateToResearch
    \/ InitListDone
    \/ InitMsgsDone
    \/ InitCreateDone
    \/ handleSwitchChat
    \/ SwitchMsgsDone
    \/ SwitchSessDone
    \/ LoadFocusDone
    \/ WindowFocus
    \/ handleFocusPaper
    \/ handleUnfocusPaper
    \/ FocusRequestDone
    \/ handleClearFocus
    \/ ClearFocusDone
    \/ pdCheckIfFocused
    \/ pdHandleFocus
    \/ PdFocusDone
    \/ pdHandleChatAboutPaper
    \/ PdChatDone

NextWs ==
    \/ NavigateToResearch
    \/ InitListDone
    \/ InitMsgsDone
    \/ InitCreateDone
    \/ handleSwitchChat
    \/ SwitchMsgsDone
    \/ SwitchSessDone
    \/ LoadFocusDone
    \/ WindowFocus
    \/ handleFocusPaper
    \/ handleUnfocusPaper
    \/ FocusRequestDone
    \/ handleClearFocus
    \/ ClearFocusDone
    \/ handleCreateChat
    \/ CreateDone
    \/ CreateChatsDone
    \/ handleSendMessage
    \/ SendDone
    \/ SendChatsDone
    \/ ClearSessionClick
    \/ pdCheckIfFocused
    \/ pdHandleFocus
    \/ PdFocusDone
    \/ pdHandleChatAboutPaper
    \/ PdChatDone

-----------------------------------------------------------------------------
(***************************************************************************)
(* The specifications.  In each, the machines it is not about stay idle.   *)
(***************************************************************************)

IdleApi == InitApi

IdleDb ==
    /\ dbEnv = [databases |-> <<>>, users |-> <<>>, passwords |-> <<>>]
    /\ dbPc = "read"
    /\ dbArr = [databases |-> <<>>, users |-> <<>>, passwords |-> <<>>]
    /\ dbI = 0
    /\ dbOut = <<>>
    /\ dbExit = Running
    /\ dbUsers = <<>>
    /\ dbDbs = <<>>
    /\ dbFailedAt = NoFail

IdleAuth == InitAuth /\ lsAuthToken = Null

IdleCM == InitCM /\ cmChatId = "c1" /\ beSession = [c \in Chats |-> "no_session"]

IdleClient == InitClient

IdleWs == InitWs /\ ssCurrentChatId = Null /\ beChats = <<>> /\ beSources = {pdPaper}

InitSpecApi == InitApi /\ IdleDb /\ IdleAuth /\ IdleCM /\ IdleWs /\ IdleClient
SpecApi == InitSpecApi /\ [][NextApi]_vars

InitSpecDb == IdleApi /\ InitDb /\ IdleAuth /\ IdleCM /\ IdleWs /\ IdleClient
SpecDb == InitSpecDb /\ [][NextDb]_vars

InitSpecAuth == IdleApi /\ IdleDb /\ InitAuth /\ IdleCM /\ IdleWs /\ IdleClient
SpecAuth == InitSpecAuth /\ [][NextAuth]_vars

\* The mount effect runs once the provider has rendered, and the request to
\* /auth/me settles (a response, or axios' network error).
SpecAuthFair ==
    /\ InitSpecAuth /\ [][NextAuth]_vars
    /\ WF_vars(LoadAuth)
    /\ WF_vars(LoadAuthResolved \/ LoadAuthRejected)

InitSpecCM == IdleApi /\ IdleDb /\ IdleAuth /\ InitCM /\ IdleWs /\ IdleClient
SpecCM == InitSpecCM /\ [][NextCM]_vars

InitSpecWs == IdleApi /\ IdleDb /\ IdleAuth /\ IdleCM /\ InitWs /\ IdleClient
SpecWs == InitSpecWs /\ [][NextWs]_vars

InitSpecChat == IdleApi /\ IdleDb /\ IdleAuth /\ IdleCM /\ InitWs /\ beSources = {pdPaper} /\ IdleClient
SpecChat == InitSpecChat /\ [][NextChat]_vars

InitSpecFocus == IdleApi /\ IdleDb /\ IdleAuth /\ IdleCM /\ InitWs /\ beSources = {pdPaper} /\ IdleClient
SpecFocus == InitSpecFocus /\ [][NextFocus]_vars

\* Two sources in the sidebar of a workspace with chats, and the handlers that
\* toggle the focus on them.
NextToggle ==
    \/ NavigateToResearch
    \/ InitListDone
    \/ InitMsgsDone
    \/ LoadFocusDone
    \/ handleFocusPaper
    \/ handleUnfocusPaper
    \/ FocusRequestDone

InitSpecToggle ==
    /\ IdleApi /\ IdleDb /\ IdleAuth /\ IdleCM /\ InitWs
    /\ beSources = Papers /\ beChats # <<>>
    /\ IdleClient
SpecToggle == InitSpecToggle /\ [][NextToggle]_vars

InitSpecClient == IdleApi /\ IdleDb /\ InitAuth /\ IdleCM /\ IdleWs /\ InitClient
SpecClient == InitSpecClient /\ [][NextClient]_vars

Init == InitSpecWs
Next == NextWs
Spec == Init /\ [][Next]_vars

-----------------------------------------------------------------------------
(***************************************************************************)
(* The claims.                                                             *)
(***************************************************************************)

\* C1: no helper of apiHelpers rejects when its HTTP call fails: checkHealth
\* returns false, getSystemStatus returns status 'error', every other helper
\* returns success = false with a non-empty error, the backend's detail when
\* there is one and the helper's fallback text otherwise; success = true is
\* returned only when the HTTP call succeeded.
C1_HelpersNeverReject ==
    /\ apiRet.settled = "returned"
    /\ (apiFn = "checkHealth" /\ ~apiHttp.ok) => apiRet.val = FALSE
    /\ (apiFn = "getSystemStatus" /\ ~apiHttp.ok) => apiRet.val.status = "error"
    /\ (apiFn \in StdHelpers /\ ~apiHttp.ok) =>
           /\ apiRet.val.success = FALSE
           /\ apiRet.val.error \notin {"", Undefined}
           /\ apiRet.val.error = IF apiHttp.detail \in {"", Undefined}
                                 THEN Fallback[apiFn] ELSE apiHttp.detail
    /\ (apiFn \in StdHelpers /\ apiRet.val.success) => apiHttp.ok

\* C1 witness: a failed sendMessage reports the backend's detail, and a failed
\* call without one the fallback.
C1_Witness ==
    /\ apiFn = "sendMessage" /\ ~apiHttp.ok /\ apiHttp.detail = "Not found"
    /\ apiRet.settled = "returned" /\ apiRet.val.error = "Not found"

\* C5: the context token equals localStorage's auth_token once the mount
\* effect has read it; a resolved login or register leaves both at the
\* access_token returned; logout leaves both absent and user null, whatever
\* becomes of the backend's logout request; a rejected login or register
\* leaves token, user and the stored token as they were.
C5_TokenMatchesStorage ==
    /\ loadAuthPc # "mount" => token = lsAuthToken
    /\ authLast.op = "login_ok" =>
           token = authLast.tok /\ lsAuthToken = authLast.tok /\ user # Null
    /\ authLast.op = "logout" =>
           token = Null /\ lsAuthToken = Null /\ user = Null
    /\ authLast.op \in {"login_failed", "logout_req_ok", "logout_req_failed"} =>
           AuthSnapshot = authLast.pre

\* C5 witness: a login has replaced the token of an earlier one.
C5_Witness ==
    /\ authLast.op = "login_ok"
    /\ authLast.pre.token \in Tokens \ {token}
    /\ lsAuthToken = token

C7_GuardedChildren ==
    /\ routeView = "children" => user # Null /\ token # Null /\ ~authIsLoading
    /\ authOnlyView = "children" => user # Null /\ token # Null
    /\ authIsLoading => routeView = "placeholder"
    /\ (~authIsLoading /\ ~(user # Null /\ token # Null)) => routeView = "redirect"

\* C7 witness: the children are shown to an authenticated user.
C7_Witness == routeView = "children" /\ authOnlyView = "children"

\* C8: when the three lists differ in their number of entries the script
\* prints the mismatch error and exits 1 with nothing created; otherwise it
\* creates user i, then database i owned by user i, in list order, stops at
\* the first failing SQL step, and prints the success message only after
\* every pair has been created.
C8_InitDatabases ==
    LET databases == ReadArray(dbEnv.databases)
        users     == ReadArray(dbEnv.users)
        passwords == ReadArray(dbEnv.passwords)
        differ    == ~(Len(databases) = Len(users) /\ Len(users) = Len(passwords))
    IN
    /\ (differ /\ dbPc \notin {"read", "check"}) =>
           /\ dbPc = "exit" /\ dbExit = 1
           /\ dbOut = <<MismatchMsg>>
           /\ dbUsers = <<>> /\ dbDbs = <<>>
    /\ \A k \in 1..Len(dbUsers) : dbUsers[k] = users[k]
    /\ \A k \in 1..Len(dbDbs) : dbDbs[k] = [name |-> databases[k], owner |-> users[k]]
    /\ Len(dbDbs) <= Len(dbUsers) /\ Len(dbUsers) <= Len(dbDbs) + 1
    /\ dbFailedAt # NoFail =>
           /\ dbPc = "exit" /\ dbExit \notin {0, Running}
           /\ SuccessMsg \notin SeqRange(dbOut)
           /\ Len(dbUsers) = IF dbFailedAt[2] = "createUser"
                               THEN dbFailedAt[1] - 1 ELSE dbFailedAt[1]
           /\ Len(dbDbs) = IF dbFailedAt[2] \in {"createUser", "createDb"}
                             THEN dbFailedAt[1] - 1 ELSE dbFailedAt[1]
    /\ SuccessMsg \in SeqRange(dbOut) =>
           /\ ~differ /\ dbExit = 0
           /\ Len(dbUsers) = Len(databases) /\ Len(dbDbs) = Len(databases)

\* C8 witness: two pairs created, then the success message.
C8_Witness ==
    /\ dbExit = 0 /\ Len(dbDbs) = 2 /\ dbOut[Len(dbOut)] = SuccessMsg

\* C3 as stated: the selected strategy changes only in the step in which the
\* backend has accepted the switch request for the new value; a failed switch
\* leaves the selected strategy and the session info alone, sets an error,
\* does not call onStrategyChange and resets loading.
C3_OnlyAfterAccepted ==
    /\ selectedStrategy # cmLast.pre.selected =>
           /\ cmLast.op = "switch_ok" /\ selectedStrategy = cmLast.arg
           /\ beSession[cmLast.chat] = selectedStrategy
    /\ cmLast.op = "switch_failed" =>
           /\ selectedStrategy = cmLast.pre.selected
           /\ cmSessionInfo = cmLast.pre.info
           /\ error # "" /\ ~cmLast.called /\ ~loading

\* C3 amended: the selected strategy changes to a new value only when the
\* backend has accepted the switch request for that value, or when a load of
\* the session info sets it to the strategy the backend reports ('hybrid'
\* when it reports none); a failed switch leaves the selected strategy and
\* the session info alone, sets an error, does not call onStrategyChange and
\* resets loading.
C3_AcceptedOrReported ==
    /\ selectedStrategy # cmLast.pre.selected =>
           \/ /\ cmLast.op = "switch_ok" /\ selectedStrategy = cmLast.arg
              /\ beSession[cmLast.chat] = selectedStrategy
           \/ /\ cmLast.op = "load_ok"
              /\ selectedStrategy = OrElse(cmSessionInfo.current_strategy, "hybrid")
    /\ cmLast.op = "switch_failed" =>
           /\ selectedStrategy = cmLast.pre.selected
           /\ cmSessionInfo = cmLast.pre.info
           /\ error # "" /\ ~cmLast.called /\ ~loading

\* C3 witness: a switch request has failed with a strategy selected.
C3_Witness ==
    /\ cmLast.op = "switch_failed" /\ selectedStrategy \in Strategies
    /\ cmLast.arg # selectedStrategy /\ error # ""

\* C2: every request the workspace issues on behalf of a chat is addressed to
\* the chat selected when the request is issued; the session-info and
\* focused-paper reloads of handleSwitchChat(next) are addressed to next.
C2_AddressedToSelected ==
    [][\A t \in wsTasks' \ wsTasks :
           Addressee(t) # Null => Addressee(t) = chatId']_vars

\* C4: the workspace's list of focused papers and every list stored under
\* focused_papers_<chatId> hold no arxiv_id twice, whatever toggles, removals,
\* clears, reloads from the backend and restores from the storage happened.
C4_NoDuplicateFocus ==
    LET NoDup(s) == \A i, j \in 1..Len(s) : i # j => s[i] # s[j] IN
    /\ NoDup(focusedPapers)
    /\ \A c \in ChatIds : NoDup(ssFocused[c].list)

\* C4 witness: the backend lists the paper twice for the selected chat, and
\* the workspace, with nothing in flight, shows and stores it once.
C4_Witness ==
    /\ page = "research" /\ isInitialized /\ chatId # "" /\ wsTasks = {}
    /\ beFocused[chatId] = <<pdPaper, pdPaper>>
    /\ focusedPapers = <<pdPaper>>
    /\ ssFocused[chatId] = Stored(<<pdPaper>>)

C10_ReplyToOriginatingChat ==
    [][\A t \in wsTasks \ wsTasks' :
           (t.kind = "send" /\ t.pc = "await" /\ t.chat # ""
                /\ Len(messages') = Len(messages) + 1)
               => t.chat = chatId]_vars

\* C11: once the user has switched from a chat X to a chat Y with nothing else
\* in flight, and every request the switch caused (loadMessages, loadSessionInfo
\* and loadFocusedPapers of the handler, loadFocusedPapers of the chatId effect)
\* has completed with success, in whatever order, the focused papers shown and
\* the item focused_papers_Y are both the backend's list of Y, without its
\* repetitions.
C11_SwitchLoadsFocus ==
    (cleanSwitch /\ wsTasks = {}) =>
        /\ focusedPapers = Dedupe(beFocused[chatId])
        /\ ssFocused[chatId] = Stored(Dedupe(beFocused[chatId]))

\* C12: once the workspace has no request in flight, the focused papers shown
\* are the backend's focused set of the chat: the toggles of two different
\* papers are both reflected when both requests succeed, also when the second
\* is made before the first has completed (a failed request changes neither
\* side).
C12_TogglesReflected ==
    (page = "research" /\ isInitialized /\ wsTasks = {})
    => SeqRange(focusedPapers) = SeqRange(beFocused[chatId])

\* C13: in every state of AuthProvider from the mount effect on, also when a
\* login, a register or a logout acts while the validation of the stored token
\* is in flight, a user that is not null comes with a token that is not null,
\* and the context token is the auth_token of localStorage.
C13_UserHasStoredToken ==
    /\ user # Null => token # Null
    /\ loadAuthPc # "mount" => token = lsAuthToken

\* C14: when initializeChat has loaded the chat list, it selects the chat
\* stored under current_chat_id if the list holds it, otherwise the first chat
\* of the list, whose id it stores; it asks for a new chat only when the list
\* was loaded and is empty, so only when the backend has no chat; and a
\* selected chat is the one stored under current_chat_id.
C14_InitSelects ==
    [][/\ \A t \in wsTasks \ wsTasks' :
              (t.kind = "init" /\ t.pc = "list") =>
                  LET creating == \E n \in wsTasks' \ wsTasks :
                                      n.kind = "init" /\ n.pc = "create"
                  IN
                  /\ creating => beChats = <<>>
                  /\ (chats' = beChats /\ beChats # <<>>) =>
                         /\ chatId' = IF ssCurrentChatId \in SeqRange(beChats)
                                       THEN ssCurrentChatId ELSE beChats[1]
                         /\ ssCurrentChatId' = chatId'
       /\ chatId' # "" => ssCurrentChatId' = chatId']_vars

\* C15: no request of the workspace that names a chat (a message sent, a load
\* of the session info or of the focused papers, a change of the focused
\* papers) is made with the empty chat id, also while initializeChat is still
\* running and when its createChat has failed.
C15_NoEmptyChatId ==
    [][\A t \in wsTasks' \ wsTasks : Addressee(t) # ""]_vars

\* C16: the conversation shown is never empty: after initialization, a switch
\* of chat, the creation of a chat, a cleared session or a send it holds at
\* least one entry, the greeting or the placeholder when the chat selected has
\* no stored message or its messages could not be loaded.
C16_ConversationNotEmpty == Len(messages) >= 1

\* C17: a request to switch the strategy of a chat is made only when the
\* session info the component holds, the one it loaded last, is that of the
\* same chat and has a status other than 'no_session', and never while a
\* switch or a clear request of the component is in flight.
C17_SwitchNeedsSession ==
    [][\A t \in cmTasks' \ cmTasks :
           t.kind = "switch" =>
               /\ cmSessionInfo # NoSessionInfo
               /\ cmSessionInfo.chat_id = t.chat
               /\ cmSessionInfo.status # "no_session"
               /\ ~\E u \in cmTasks : u.kind \in {"switch", "clear"}]_vars

\* C18: a request sent through the shared client carries the header
\* Authorization 'Bearer <t>' with t the auth_token localStorage holds when it
\* is sent, and no Authorization header when none is stored; so a request sent
\* after a logout does not carry the token that was logged out.
C18_BearerOfStoredToken ==
    clientReq # NoRequest =>
        /\ clientReq.stored # Null =>
               clientReq.headers.Authorization = Bearer(clientReq.stored)
        /\ clientReq.stored = Null =>
               clientReq.headers.Authorization = Undefined
        /\ clientReq.after = "logout" =>
               /\ clientReq.stored = Null
               /\ clientReq.loggedOut # Null =>
                      clientReq.headers.Authorization # Bearer(clientReq.loggedOut)

\* C18 witness: a request sent after the logout of a user whose token was
\* stored.
C18_Witness ==
    /\ clientReq.after = "logout"
    /\ clientReq.loggedOut \in Tokens
    /\ clientReq.headers.Authorization = Undefined

====
